---- MODULE Spec2Model ----
(***************************************************************************)
(* Model of the configuration-section core of weechat-rs                   *)
(* (src/weechat-rs/src/config/section.rs): option registration through     *)
(* ConfigSection::new_boolean_option / new_option, the three extern "C"    *)
(* trampolines c_check_cb / c_change_cb / c_delete_cb, and the teardown    *)
(* performed by impl Drop for ConfigSection.                               *)
(*                                                                         *)
(* Pointers are integers, NULL is 0.  Option<T> is a sequence of length    *)
(* at most one (None == <<>>, Some(x) == <<x>>).  Text is a sequence of    *)
(* characters.  Option names and descriptions are opaque text the binding  *)
(* passes through unchanged; they are left out of the call record.         *)
(*                                                                         *)
(* The second half models the go plugin built on the binding              *)
(* (src/weechat/examples/go/src/lib.rs): the /go command, the interactive  *)
(* go-mode with its four hooks, the input-text modifier and the /input     *)
(* command override.  The section core runs under Spec, the plugin under   *)
(* SpecGo (FairSpecGo adds the host's timer); each keeps the other half's  *)
(* variables fixed.                                                        *)
(***************************************************************************)
EXTENDS Integers, Sequences, FiniteSets, TLC

\* ------------------------------------------------------------------ bounds
\* Number of new_boolean_option calls made on the section.
MaxOptions == 2
\* Number of buffers the host has open at the start.
MaxBuffers == 2
\* Length of the text typed on the input line while in go-mode.
MaxInput == 1
\* Number of "/wait 1ms /input return" commands waiting on the host's timer.
MaxPending == 1

\* --------------------------------------------------------------- constants
NULL == 0
WEECHAT_RC_OK == 0

\* Null function pointer (Option<extern "C" fn> == None).
NULL_FN == "null"

None == <<>>
Some(x) == <<x>>

Roles == {"check", "change", "delete"}

\* Heap addresses a Box can live at: one per option Cell plus the section Cell.
Addrs == 1 .. (MaxOptions + 1)
\* Option handles the host can hand out.
Handles == 1 .. MaxOptions
\* Plugin handles (t_weechat_plugin*) the section can belong to.
PluginPtrs == {11}
\* Section and config-file handles.
SectionPtrs == {21}
ConfigPtrs == {31}

\* Text tokens.
NUL == "NUL"
On == <<"o", "n">>
Off == <<"o", "f", "f">>
BooleanTag == <<"b", "o", "o", "l", "e", "a", "n">>
EmptyText == <<>>
\* Proposed values the host hands to the check callback.
ProposedValues == {On, <<"x">>}

VARIABLES
    section,      \* the ConfigSection struct
    heap,         \* [Addrs -> "unalloc" | "ConfigSectionPointers" | "OptionPointers" | "freed"]
    cells,        \* [Addrs -> contents of the OptionPointers box at that address]
    sectionCell,  \* contents of the ConfigSectionPointers box
    dropCount,    \* [Addrs -> number of times the box at the address was dropped]
    hostSection,  \* host side: "live" | "freed"
    options,      \* host side: live option handle -> callbacks registered for it
    supplied,     \* option handle -> the closures the plugin supplied for it
    lastCall,     \* the most recent config_new_option call and what was returned
    lastInvoke,   \* the most recent trampoline invocation and its outcome
    teardown,     \* steps of Drop for ConfigSection executed so far
    autojump,      \* go plugin: config option behaviour.autojump
    open,          \* host: the buffers that exist
    current,       \* host: the current buffer
    input,         \* host: [buffer -> input line: text and cursor position]
    hooks,         \* host: the go-mode hooks that are installed
    running_state, \* InnerGo::running_state: Option<RunningState>
    scheduled,     \* host: buffers with a "/wait 1ms /input return" pending
    entered_on,    \* the buffer the /go command that entered go-mode ran on
    jump_target,   \* the buffer an autojump was scheduled for in this go-mode
    goEvent        \* the most recent callback of the plugin and its result

secVars == <<section, heap, cells, sectionCell, dropCount, hostSection, options,
             supplied, lastCall, lastInvoke, teardown>>

goVars == <<autojump, open, current, input, hooks, running_state, scheduled,
            entered_on, jump_target, goEvent>>

vars == <<secVars, goVars>>

\* Buffers are named by their number.
BufferIds == 1 .. MaxBuffers
\* An empty input line.
EmptyInput == [input_string |-> <<>>, input_position |-> 0]
\* No callback of the plugin has run yet.
NoEvent == [kind |-> "none"]

\* The go plugin loaded and idle, nothing typed anywhere.
GoIdle ==
    /\ autojump = FALSE
    /\ open = BufferIds
    /\ current = 1
    /\ input = [b \in BufferIds |-> EmptyInput]
    /\ hooks = {}
    /\ running_state = <<>>
    /\ scheduled = <<>>
    /\ entered_on = 0
    /\ jump_target = <<>>
    /\ goEvent = NoEvent

\* -------------------------------------------------------------- data types
\* OptionPointers<T> before any closure is stored (unallocated slot).
EmptyCell == [weechat_ptr |-> NULL, check_cb |-> None, change_cb |-> None,
              delete_cb |-> None]

\* T::from_ptrs(option_pointer, weechat_ptr): the borrowed typed wrapper.
from_ptrs(option_pointer, weechat_ptr) ==
    [ptr |-> option_pointer, weechat_ptr |-> weechat_ptr]

\* LossyCString::new: text as a C string, which cannot carry interior NULs.
LossyCString(s) == SelectSeq(s, LAMBDA c : c # NUL)

\* Box::new: an address that holds no live allocation.
BoxNew(h) == CHOOSE a \in Addrs : h[a] = "unalloc" /\ \A b \in Addrs : h[b] = "unalloc" => a <= b

\* Closures of a BooleanOptionSettings: closure k/r is the closure the k-th
\* new_boolean_option call supplied for role r.
Closure(k, r) == [opt |-> k, role |-> r]

\* The BooleanOptionSettings objects the plugin can build for the k-th option.
BooleanOptionSettings(k) ==
    { [value |-> v, default_value |-> d, null_allowed |-> FALSE,
       check_cb  |-> IF "check"  \in rs THEN Some(Closure(k, "check"))  ELSE None,
       change_cb |-> IF "change" \in rs THEN Some(Closure(k, "change")) ELSE None,
       delete_cb |-> IF "delete" \in rs THEN Some(Closure(k, "delete")) ELSE None]
      : v \in BOOLEAN, d \in BOOLEAN, rs \in SUBSET Roles }

\* as i32
BoolAsInt(b) == IF b THEN 1 ELSE 0

\* ------------------------------------------------------------ trampolines
\* Result of one trampoline invocation: the wrappers it built, the closure
\* calls it made (in order) and the status it hands back on normal return.
\* c_check_cb reporting an error status once a check closure has run.
c_check_cb_rejecting(pointer, option_pointer, value) ==
    LET pointers == cells[pointer]
        option == from_ptrs(option_pointer, pointers.weechat_ptr)
    IN [wrappers |-> <<option>>,
        calls |-> [i \in 1 .. Len(pointers.check_cb) |->
                     [closure |-> pointers.check_cb[i], option |-> option,
                      value |-> Some(value)]],
        ret |-> IF pointers.check_cb # None THEN Some(WEECHAT_RC_OK - 1)
                ELSE Some(WEECHAT_RC_OK)]

c_check_cb(pointer, option_pointer, value) ==
    LET pointers == cells[pointer]
        option == from_ptrs(option_pointer, pointers.weechat_ptr)
    IN [wrappers |-> <<option>>,
        calls |-> [i \in 1 .. Len(pointers.check_cb) |->
                     [closure |-> pointers.check_cb[i], option |-> option,
                      value |-> Some(value)]],
        ret |-> Some(WEECHAT_RC_OK)]

\* c_change_cb looking at the delete slot of the Cell.
c_change_cb_delete_slot(pointer, option_pointer) ==
    LET pointers == cells[pointer]
        option == from_ptrs(option_pointer, pointers.weechat_ptr)
    IN [wrappers |-> <<option>>,
        calls |-> [i \in 1 .. Len(pointers.delete_cb) |->
                     [closure |-> pointers.delete_cb[i], option |-> option,
                      value |-> None]],
        ret |-> None]

c_change_cb(pointer, option_pointer) ==
    LET pointers == cells[pointer]
        option == from_ptrs(option_pointer, pointers.weechat_ptr)
    IN [wrappers |-> <<option>>,
        calls |-> [i \in 1 .. Len(pointers.change_cb) |->
                     [closure |-> pointers.change_cb[i], option |-> option,
                      value |-> None]],
        ret |-> None]

\* c_delete_cb building the wrapper only when a delete closure is present.
c_delete_cb_lazy_wrapper(pointer, option_pointer) ==
    LET pointers == cells[pointer]
        option == from_ptrs(option_pointer, pointers.weechat_ptr)
    IN [wrappers |-> [i \in 1 .. Len(pointers.delete_cb) |-> option],
        calls |-> [i \in 1 .. Len(pointers.delete_cb) |->
                     [closure |-> pointers.delete_cb[i], option |-> option,
                      value |-> None]],
        ret |-> None]

c_delete_cb(pointer, option_pointer) ==
    LET pointers == cells[pointer]
        option == from_ptrs(option_pointer, pointers.weechat_ptr)
    IN [wrappers |-> <<option>>,
        calls |-> [i \in 1 .. Len(pointers.delete_cb) |->
                     [closure |-> pointers.delete_cb[i], option |-> option,
                      value |-> None]],
        ret |-> None]

\* The function behind a trampoline function pointer.
Trampoline(fn, pointer, option_pointer, value) ==
    CASE fn = "c_check_cb"  -> c_check_cb(pointer, option_pointer, value)
      [] fn = "c_change_cb" -> c_change_cb(pointer, option_pointer)
      [] fn = "c_delete_cb" -> c_delete_cb(pointer, option_pointer)

TrampolineOf(r) ==
    CASE r = "check"  -> "c_check_cb"
      [] r = "change" -> "c_change_cb"
      [] r = "delete" -> "c_delete_cb"

\* ----------------------------------------------------------- registration
\* FnPtr installing the trampoline whether or not a closure was supplied.
FnPtrAlways(cb, trampoline) == trampoline

\* match cb { Some(_) => Some(trampoline), None => None }
FnPtr(cb, trampoline) == IF cb # None THEN trampoline ELSE NULL_FN

\* OptionDescription encoding the default from the current value.
OptionDescriptionSharedValue(settings) ==
    [option_type   |-> BooleanTag,
     string_values |-> EmptyText,
     min           |-> 0,
     max           |-> 0,
     default_value |-> IF settings.value THEN On ELSE Off,
     value         |-> IF settings.value THEN On ELSE Off,
     null_allowed  |-> settings.null_allowed]

\* The OptionDescription new_boolean_option builds from its settings.
OptionDescription(settings) ==
    [option_type   |-> BooleanTag,
     string_values |-> EmptyText,
     min           |-> 0,
     max           |-> 0,
     default_value |-> IF settings.default_value THEN On ELSE Off,
     value         |-> IF settings.value THEN On ELSE Off,
     null_allowed  |-> settings.null_allowed]

\* The arguments new_option passes to the host's config_new_option, with the
\* Cell it leaked at address cell.
new_option(self, d, check_cb, change_cb, delete_cb, cell) ==
    [config_file             |-> self.config_ptr,
     section                 |-> self.ptr,
     type                    |-> LossyCString(d.option_type),
     string_values           |-> LossyCString(d.string_values),
     min                     |-> d.min,
     max                     |-> d.max,
     default_value           |-> LossyCString(d.default_value),
     value                   |-> LossyCString(d.value),
     null_allowed            |-> BoolAsInt(d.null_allowed),
     callback_check          |-> FnPtr(check_cb, "c_check_cb"),
     callback_check_pointer  |-> cell,
     callback_check_data     |-> NULL,
     callback_change         |-> FnPtr(change_cb, "c_change_cb"),
     callback_change_pointer |-> cell,
     callback_change_data    |-> NULL,
     callback_delete         |-> FnPtr(delete_cb, "c_delete_cb"),
     callback_delete_pointer |-> cell,
     callback_delete_data    |-> NULL]

\* The Cell new_option boxes and leaks.
OptionPointers(self, check_cb, change_cb, delete_cb) ==
    [weechat_ptr |-> self.weechat_ptr, check_cb |-> check_cb,
     change_cb |-> change_cb, delete_cb |-> delete_cb]

\* What the host keeps of a registration: per role the function pointer and
\* the two context slots.
HostOption(args) ==
    [check  |-> [fn |-> args.callback_check,  pointer |-> args.callback_check_pointer,
                 data |-> args.callback_check_data],
     change |-> [fn |-> args.callback_change, pointer |-> args.callback_change_pointer,
                 data |-> args.callback_change_data],
     delete |-> [fn |-> args.callback_delete, pointer |-> args.callback_delete_pointer,
                 data |-> args.callback_delete_data]]

\* ------------------------------------------------------------------ state
NoCall == [fn |-> "none"]
NoInvoke == [kind |-> "none", outcome |-> "none"]

\* The process is still executing plugin code normally.
Crashed == lastInvoke.outcome \in {"abort", "unwind"}
DropStarted == Len(teardown) > 0
OptionCells == {a \in Addrs : heap[a] = "OptionPointers"}

\* A freshly created section whose Cell holds the given callbacks.
SectionInit(rd, wr) ==
    /\ \E w \in PluginPtrs, s \in SectionPtrs, c \in ConfigPtrs :
          LET a == BoxNew([b \in Addrs |-> "unalloc"])
          IN /\ section = [ptr |-> s, config_ptr |-> c, weechat_ptr |-> w,
                           section_data |-> a]
             /\ heap = [b \in Addrs |-> IF b = a THEN "ConfigSectionPointers"
                                        ELSE "unalloc"]
    /\ sectionCell = [read_cb  |-> IF rd THEN Some("read_cb") ELSE None,
                      write_cb |-> IF wr THEN Some("write_cb") ELSE None]
    /\ cells = [b \in Addrs |-> EmptyCell]
    /\ dropCount = [b \in Addrs |-> 0]
    /\ hostSection = "live"
    /\ options = <<>>
    /\ supplied = <<>>
    /\ lastCall = NoCall
    /\ lastInvoke = NoInvoke
    /\ teardown = <<>>

Init ==
    /\ \E rd \in BOOLEAN, wr \in BOOLEAN : SectionInit(rd, wr)
    /\ GoIdle

\* ConfigSection::new_boolean_option(settings), the host answering with ptr.
new_boolean_option(settings, ptr) ==
    LET cell == BoxNew(heap)
        args == new_option(section, OptionDescription(settings),
                           settings.check_cb, settings.change_cb,
                           settings.delete_cb, cell)
    IN /\ heap' = [heap EXCEPT ![cell] = "OptionPointers"]
       /\ cells' = [cells EXCEPT ![cell] =
                      OptionPointers(section, settings.check_cb,
                                     settings.change_cb, settings.delete_cb)]
       /\ options' = IF ptr = NULL THEN options
                     ELSE [h \in DOMAIN options \cup {ptr} |->
                             IF h = ptr THEN HostOption(args) ELSE options[h]]
       /\ supplied' = IF ptr = NULL THEN supplied
                      ELSE [h \in DOMAIN supplied \cup {ptr} |->
                              IF h = ptr
                              THEN [cell   |-> cell,
                                    check  |-> settings.check_cb,
                                    change |-> settings.change_cb,
                                    delete |-> settings.delete_cb]
                              ELSE supplied[h]]
       /\ lastCall' = [fn |-> "config_new_option", args |-> args,
                       settings |-> settings, result |-> ptr,
                       returned |-> [inner |-> from_ptrs(ptr, section.weechat_ptr)]]
       /\ UNCHANGED <<section, sectionCell, dropCount, hostSection,
                      lastInvoke, teardown>>
       /\ UNCHANGED goVars

NewBooleanOption ==
    /\ ~Crashed /\ ~DropStarted
    /\ Cardinality(OptionCells) < MaxOptions
    /\ \E settings \in BooleanOptionSettings(Cardinality(OptionCells) + 1),
          ptr \in {NULL} \cup {h \in Handles : h \notin DOMAIN options
                                  /\ \A g \in Handles \ DOMAIN options : h <= g} :
          new_boolean_option(settings, ptr)

\* One run of the trampoline fn with the given context pointer and handle.
\* A closure that panics unwinds out of the extern "C" frame: the build
\* either aborts the process or lets the unwind reach the host's frames.
Invoke(r, fn, pointer, option_pointer, value) ==
    LET res == Trampoline(fn, pointer, option_pointer, value)
    IN /\ \E outcome \in (IF res.calls = <<>> THEN {"returned"}
                          ELSE {"returned", "abort", "unwind"}) :
             lastInvoke' = [kind |-> r, fn |-> fn, pointer |-> pointer,
                            option_pointer |-> option_pointer,
                            wrappers |-> res.wrappers, calls |-> res.calls,
                            outcome |-> outcome,
                            ret |-> IF outcome = "returned" THEN res.ret ELSE None]
       /\ UNCHANGED <<section, heap, cells, sectionCell, dropCount, hostSection,
                      options, supplied, lastCall, teardown>>
       /\ UNCHANGED goVars

\* The host calls back through a function pointer registered for the option.
HostCallback ==
    /\ ~Crashed /\ ~DropStarted
    /\ \E o \in DOMAIN options, r \in Roles, v \in ProposedValues :
          /\ options[o][r].fn # NULL_FN
          /\ r # "check" => v = On
          /\ Invoke(r, options[o][r].fn, options[o][r].pointer, o, v)

\* A simulated host call: the trampoline of a role the option registered no
\* function pointer for is run directly with the option's context and handle.
SimulatedCallback ==
    /\ ~Crashed /\ ~DropStarted
    /\ \E o \in DOMAIN options, r \in Roles, v \in ProposedValues :
          /\ options[o][r].fn = NULL_FN
          /\ r # "check" => v = On
          /\ Invoke(r, TrampolineOf(r), options[o][r].pointer, o, v)

\* drop_steps releasing the section handle before its options.
drop_steps_section_first ==
    <<"reclaim_section_data", "section_free", "options_free">>

\* The statements of Drop for ConfigSection, in program order.
drop_steps == <<"reclaim_section_data", "options_free", "section_free">>

\* Drop for ConfigSection, one statement at a time.
DropStep ==
    /\ ~Crashed
    /\ Len(teardown) < Len(drop_steps)
    /\ LET step == drop_steps[Len(teardown) + 1]
       IN /\ teardown' = Append(teardown, [step |-> step, ptr |->
                              IF step = "reclaim_section_data"
                              THEN section.section_data ELSE section.ptr])
          /\ CASE step = "reclaim_section_data" ->
                    /\ heap' = [heap EXCEPT ![section.section_data] = "freed"]
                    /\ dropCount' = [dropCount EXCEPT ![section.section_data] = @ + 1]
                    /\ UNCHANGED <<options, hostSection>>
               [] step = "options_free" ->
                    /\ options' = <<>>
                    /\ UNCHANGED <<heap, dropCount, hostSection>>
               [] step = "section_free" ->
                    /\ hostSection' = "freed"
                    /\ UNCHANGED <<heap, dropCount, options>>
    /\ UNCHANGED <<section, cells, sectionCell, supplied, lastCall, lastInvoke>>
    /\ UNCHANGED goVars

Next ==
    \/ NewBooleanOption
    \/ HostCallback
    \/ SimulatedCallback
    \/ DropStep

Spec == Init /\ [][Next]_vars

\* ------------------------------------------------------------------ claims
RegistrationDone == lastCall.fn = "config_new_option"
Invoked == lastInvoke.kind # "none"
DropDone == Len(teardown) = Len(drop_steps)
StepIndex(name) == {i \in 1 .. Len(teardown) : teardown[i].step = name}

\* C1: a Cell whose address was handed to the host stays allocated while the
\* native option or section it was registered for exists; the section's
\* ConfigSectionPointers is reclaimed only after the host's free-options and
\* free-section calls have both been made.
C1_CellOutlivesNativeObject ==
    /\ hostSection = "live" => heap[section.section_data] = "ConfigSectionPointers"
    /\ \A o \in DOMAIN options : \A r \in Roles :
          heap[options[o][r].pointer] = "OptionPointers"
    /\ \A i \in StepIndex("reclaim_section_data") :
          /\ \E j \in StepIndex("options_free") : j < i
          /\ \E j \in StepIndex("section_free") : j < i

\* C2: once a section with N registered options is destroyed, its one
\* ConfigSectionPointers and the N OptionPointers Cells have each been dropped
\* exactly once, no Cell is still allocated and none was freed twice.
C2_TeardownDropsEveryCellOnce ==
    DropDone =>
       /\ dropCount[section.section_data] = 1
       /\ \A o \in DOMAIN supplied : dropCount[supplied[o].cell] = 1
       /\ \A a \in Addrs : heap[a] \notin {"ConfigSectionPointers", "OptionPointers"}
       /\ \A a \in Addrs : dropCount[a] <= 1

\* C3: a trampoline of role r run with an option's context pointer and handle
\* calls the closure supplied for r on that option exactly once, with a wrapper
\* over the handle the host passed, and calls nothing else; with no closure
\* supplied for r it calls nothing at all.
C3_DispatchMatchesRole ==
    Invoked =>
       LET o == lastInvoke.option_pointer
           cb == supplied[o][lastInvoke.kind]
       IN /\ Len(lastInvoke.calls) = Len(cb)
          /\ \A i \in 1 .. Len(lastInvoke.calls) :
                /\ lastInvoke.calls[i].closure = cb[i]
                /\ lastInvoke.calls[i].closure.role = lastInvoke.kind
                /\ lastInvoke.calls[i].option.ptr = o

\* C3 witness: an option registered with a change closure only, whose change
\* trampoline has run and called that closure once.
C3_Witness ==
    /\ Invoked
    /\ lastInvoke.kind = "change"
    /\ supplied[lastInvoke.option_pointer].check = None
    /\ supplied[lastInvoke.option_pointer].delete = None
    /\ supplied[lastInvoke.option_pointer].change # None
    /\ Len(lastInvoke.calls) = 1
    /\ lastInvoke.calls[1].option.ptr = lastInvoke.option_pointer

\* C4: every trampoline invocation ends by returning normally to the host,
\* the check trampoline with its fixed status, whatever the closure does.
C4_TrampolineReturnsNormally ==
    Invoked =>
       /\ lastInvoke.outcome = "returned"
       /\ lastInvoke.kind = "check" => lastInvoke.ret = Some(WEECHAT_RC_OK)

\* C5: no option wrapper built on a null handle is returned to the plugin:
\* a null answer of the host's registration call is reported as a failure.
C5_NullHandleReported ==
    RegistrationDone => lastCall.returned.inner.ptr # NULL

\* C6: for each role, the registration call passes a non-null trampoline
\* function pointer exactly when a closure was supplied for that role.
C6_FnPtrIffClosure ==
    RegistrationDone =>
       /\ lastCall.args.callback_check  # NULL_FN <=> lastCall.settings.check_cb  # None
       /\ lastCall.args.callback_change # NULL_FN <=> lastCall.settings.change_cb # None
       /\ lastCall.args.callback_delete # NULL_FN <=> lastCall.settings.delete_cb # None

\* C6 witness: a registration without any closure, all three pointers null.
C6_Witness ==
    /\ RegistrationDone
    /\ lastCall.settings.check_cb = None
    /\ lastCall.settings.change_cb = None
    /\ lastCall.settings.delete_cb = None
    /\ lastCall.args.callback_check = NULL_FN
    /\ lastCall.args.callback_change = NULL_FN
    /\ lastCall.args.callback_delete = NULL_FN

\* C7: the status the check trampoline returns is WEECHAT_RC_OK on every
\* return, with or without a check closure and for every proposed value; it
\* never returns any other status.
C7_CheckAlwaysOk ==
    (Invoked /\ lastInvoke.kind = "check") =>
       /\ lastInvoke.outcome = "returned" => lastInvoke.ret = Some(WEECHAT_RC_OK)
       /\ \A i \in 1 .. Len(lastInvoke.ret) : lastInvoke.ret[i] = WEECHAT_RC_OK

\* C7 witness: the check trampoline ran a check closure on a value that is
\* not a boolean token and returned.
C7_Witness ==
    /\ Invoked
    /\ lastInvoke.kind = "check"
    /\ Len(lastInvoke.calls) = 1
    /\ lastInvoke.calls[1].value = Some(<<"x">>)
    /\ lastInvoke.outcome = "returned"

\* C8: until teardown, allocated OptionPointers Cells and live native options
\* are in one-to-one correspondence: as many Cells as options, each option's
\* three context pointers are the address of one allocated Cell, and no two
\* options have the same Cell.
C8_OneCellPerOption ==
    ~DropStarted =>
       /\ Cardinality(OptionCells) = Cardinality(DOMAIN options)
       /\ \A o \in DOMAIN options :
             /\ options[o].check.pointer \in OptionCells
             /\ options[o].change.pointer = options[o].check.pointer
             /\ options[o].delete.pointer = options[o].check.pointer
       /\ \A o1 \in DOMAIN options, o2 \in DOMAIN options :
             o1 # o2 => options[o1].check.pointer # options[o2].check.pointer

\* C9: dropping a section calls the host's free-options function once and
\* its free-section function once, both on the section's handle, free-options
\* first; the handle is never passed to free-options after it was freed.
C9_FreeOptionsThenSection ==
    LET hostCalls == SelectSeq(teardown,
                        LAMBDA e : e.step \in {"options_free", "section_free"})
        expected == <<[step |-> "options_free", ptr |-> section.ptr],
                      [step |-> "section_free", ptr |-> section.ptr]>>
    IN /\ Len(hostCalls) <= 2
       /\ hostCalls = SubSeq(expected, 1, Len(hostCalls))
       /\ DropDone => hostCalls = expected
       /\ hostSection = "freed" => hostCalls = expected

\* C9 witness: a section with a registered option has been dropped.
C9_Witness ==
    /\ DropDone
    /\ hostSection = "freed"
    /\ DOMAIN supplied # {}

\* C10: the value text of a boolean option is "on" or "off" after
\* settings.value, the default text is "on" or "off" after
\* settings.default_value, each independently of the other.
C10_BooleanTokens ==
    RegistrationDone =>
       /\ lastCall.args.value =
             (IF lastCall.settings.value THEN <<"o", "n">> ELSE <<"o", "f", "f">>)
       /\ lastCall.args.default_value =
             (IF lastCall.settings.default_value THEN <<"o", "n">>
              ELSE <<"o", "f", "f">>)

\* C10 witness: a registration whose current value is true and default false.
C10_Witness ==
    /\ RegistrationDone
    /\ lastCall.settings.value
    /\ ~lastCall.settings.default_value
    /\ lastCall.args.value = <<"o", "n">>
    /\ lastCall.args.default_value = <<"o", "f", "f">>

\* C19: every trampoline invocation builds the typed wrapper exactly once,
\* from the option handle the host passed in that invocation and the plugin
\* handle stored in the Cell, with or without a closure for the role; the
\* closure, if any, is handed that wrapper and the Cell keeps none.
C19_OneWrapperPerInvocation ==
    Invoked =>
       /\ Len(lastInvoke.wrappers) = 1
       /\ lastInvoke.wrappers[1].ptr = lastInvoke.option_pointer
       /\ lastInvoke.wrappers[1].weechat_ptr = cells[lastInvoke.pointer].weechat_ptr
       /\ lastInvoke.wrappers[1].weechat_ptr = section.weechat_ptr
       /\ \A i \in 1 .. Len(lastInvoke.calls) :
             lastInvoke.calls[i].option = lastInvoke.wrappers[1]
       /\ DOMAIN cells[lastInvoke.pointer] =
             {"weechat_ptr", "check_cb", "change_cb", "delete_cb"}

\* C19 witness: a delete trampoline ran for an option without a delete
\* closure and still built its wrapper.
C19_Witness ==
    /\ Invoked
    /\ lastInvoke.kind = "delete"
    /\ lastInvoke.calls = <<>>
    /\ Len(lastInvoke.wrappers) = 1
    /\ lastInvoke.option_pointer \in Handles

\* =================================================================== go plugin
\* ----------------------------------------------------------------- host data
\* Characters the user types on the input line.
Chars == {"a", "b", " "}
\* A colour code inside a display string.
COLOR == "color"
\* look.prompt
PROMPT == <<"Go to: ">>
\* The hooks of Hooks::new.
AllHooks == {"modifier", "input_command", "buffer_command", "window_command"}

\* Names of buffer i.
ShortName(i) == [k \in 1 .. i |-> IF k % 2 = 1 THEN "a" ELSE "b"]
FullName(i) == <<"core", ".">> \o ShortName(i)

\* BufferData::from(&Buffer)
BufferData(i) ==
    [score |-> 0, number |-> i, full_name |-> FullName(i),
     short_name |-> ShortName(i)]

\* The host's "buffer" infolist: the open buffers in order.
Infolist(bufs) ==
    [k \in 1 .. Cardinality(bufs) |->
       CHOOSE b \in bufs : Cardinality({c \in bufs : c < b}) = k - 1]

\* weechat.buffer_search("==", full_name)
buffer_search(bufs, full_name) ==
    IF \E b \in bufs : FullName(b) = full_name
    THEN Some(CHOOSE b \in bufs : FullName(b) = full_name)
    ELSE None

\* The string the host hands to the input_text_display_with_cursor modifier:
\* the input text with a colour code at the cursor.
DisplayString(inp) ==
    SubSeq(inp.input_string, 1, inp.input_position) \o <<COLOR>>
      \o SubSeq(inp.input_string, inp.input_position + 1, Len(inp.input_string))

\* Buffer::set_input: the text is replaced, the cursor stays inside it.
set_input(inp, text) ==
    [input_string |-> text,
     input_position |-> IF inp.input_position > Len(text) THEN Len(text)
                        ELSE inp.input_position]

\* Buffer::set_input_position
set_input_position(inp, pos) == [inp EXCEPT !.input_position = pos]

\* The user types c at the cursor.
TypeAt(inp, c) ==
    [input_string |-> SubSeq(inp.input_string, 1, inp.input_position) \o <<c>>
          \o SubSeq(inp.input_string, inp.input_position + 1, Len(inp.input_string)),
     input_position |-> inp.input_position + 1]

\* ------------------------------------------------------------ text helpers
RECURSIVE trim_start(_)
trim_start(str) ==
    IF str # <<>> /\ Head(str) = " " THEN trim_start(Tail(str)) ELSE str

\* Weechat::remove_color
remove_color(str) == SelectSeq(str, LAMBDA c : c # COLOR)

\* Vec<String>::join(" ")
RECURSIVE JoinArgs(_)
JoinArgs(words) ==
    IF words = <<>> THEN <<>>
    ELSE IF Len(words) = 1 THEN words[1]
    ELSE words[1] \o <<" ">> \o JoinArgs(Tail(words))

\* The fuzzy matcher: the pattern has to occur in the name in order.
RECURSIVE IsSubsequence(_, _)
IsSubsequence(pattern, name) ==
    IF pattern = <<>> THEN TRUE
    ELSE IF name = <<>> THEN FALSE
    ELSE IF Head(pattern) = Head(name)
         THEN IsSubsequence(Tail(pattern), Tail(name))
         ELSE IsSubsequence(pattern, Tail(name))

\* matcher.fuzzy_match(short_name, pattern): Option<score>
fuzzy_match(name, pattern) ==
    IF IsSubsequence(pattern, name)
    THEN Some(16 * Len(pattern) - Len(name))
    ELSE None

\* --------------------------------------------------------------- BufferList
\* Ord for BufferData: by score, then by number.
BufferLess(x, y) ==
    \/ x.score < y.score
    \/ x.score = y.score /\ x.number < y.number

\* Vec::sort (stable).
RECURSIVE InsertSorted(_, _)
InsertSorted(sorted, x) ==
    IF sorted = <<>> THEN <<x>>
    ELSE IF BufferLess(x, Head(sorted)) THEN <<x>> \o sorted
    ELSE <<Head(sorted)>> \o InsertSorted(Tail(sorted), x)

RECURSIVE SortBuffers(_)
SortBuffers(bs) ==
    IF bs = <<>> THEN <<>>
    ELSE InsertSorted(SortBuffers(SubSeq(bs, 1, Len(bs) - 1)), bs[Len(bs)])

\* BufferList::new
BufferList_new(bufs) ==
    [buffers |-> [k \in 1 .. Cardinality(bufs) |-> BufferData(Infolist(bufs)[k])],
     selected_buffer |-> 0]

\* The filter_map of BufferList::filter: the matching entries with their scores.
RECURSIVE FilterMap(_, _)
FilterMap(bs, pattern) ==
    IF bs = <<>> THEN <<>>
    ELSE LET m == fuzzy_match(Head(bs).short_name, pattern)
         IN (IF m = None THEN <<>> ELSE <<[Head(bs) EXCEPT !.score = m[1]]>>)
              \o FilterMap(Tail(bs), pattern)

\* filter leaving the matches in infolist order.
filter_unsorted(list, pattern) ==
    [buffers |-> FilterMap(list.buffers, pattern),
     selected_buffer |-> 0]

\* BufferList::filter
filter(list, pattern) ==
    [buffers |-> SortBuffers(FilterMap(list.buffers, pattern)),
     selected_buffer |-> 0]

\* select_next_buffer stopping at the last entry.
select_next_buffer_no_wrap(list) ==
    [list EXCEPT !.selected_buffer =
       IF @ + 1 >= Len(list.buffers) THEN @ ELSE @ + 1]

\* BufferList::select_next_buffer
select_next_buffer(list) ==
    LET next == list.selected_buffer + 1
    IN [list EXCEPT !.selected_buffer =
          IF next >= Len(list.buffers) THEN 0 ELSE next]

\* BufferList::select_prev_buffer
select_prev_buffer(list) ==
    [list EXCEPT !.selected_buffer =
       IF list.selected_buffer = 0
       THEN (IF list.buffers = <<>> THEN 0 ELSE Len(list.buffers) - 1)
       ELSE list.selected_buffer - 1]

\* get_selected_buffer answering the first entry whatever is selected.
get_first_buffer(list) ==
    IF list.buffers # <<>> THEN Some(list.buffers[1]) ELSE None

\* BufferList::get_selected_buffer (Vec::get with a 0-based index)
get_selected_buffer(list) ==
    IF list.selected_buffer < Len(list.buffers)
    THEN Some(list.buffers[list.selected_buffer + 1])
    ELSE None

\* has_only_one_result accepting any non-empty list.
has_some_result(list) == Len(list.buffers) >= 1

\* BufferList::has_only_one_result
has_only_one_result(list) == Len(list.buffers) = 1

\* Display for BufferList: number and short name of every entry, the
\* selected one in the selected colours.
DisplayList(list) ==
    [k \in 1 .. Len(list.buffers) |->
       [number |-> list.buffers[k].number,
        short_name |-> list.buffers[k].short_name,
        selected |-> (k - 1 = list.selected_buffer)]]

\* BufferList::switch_to_selected_buffer: the buffer switched to, if any.
switch_to_selected_buffer(list, bufs) ==
    LET sel == get_selected_buffer(list)
    IN IF sel = None THEN None ELSE buffer_search(bufs, sel[1].full_name)

\* ------------------------------------------------------------- RunningState
\* InputState::from(&Buffer)
InputState(inp) ==
    [input_string |-> inp.input_string, input_position |-> inp.input_position]

\* InputState::restore_for_buffer
restore_for_buffer(saved, inp) ==
    set_input_position(set_input(inp, saved.input_string), saved.input_position)

\* RunningState::new (the hooks live on the host's side, in hooks)
RunningState_new(inp, bufs) ==
    [last_input |-> <<>>, saved_input |-> InputState(inp),
     buffers |-> BufferList_new(bufs)]

\* stop restoring the input before it releases the hooks.
stop_steps_restore_first ==
    <<"restore_input", "drop_hooks", "switch_to_selected_buffer">>

\* The statements of RunningState::stop, in program order.
stop_steps == <<"drop_hooks", "restore_input", "switch_to_selected_buffer">>

\* One statement of RunningState::stop on the host state h; every call into
\* the host is logged with whether the go-mode hooks were still installed.
StopStep(h, step, state, switch_to_buffer) ==
    CASE step = "drop_hooks" ->
           [h EXCEPT !.hooks = {},
                     !.trace = Append(@, [call |-> "unhook", buffer |-> 0,
                                          hooked |-> h.hooks # {}])]
      [] step = "restore_input" ->
           [h EXCEPT !.input[h.current] = restore_for_buffer(state.saved_input, @),
                     !.trace = Append(@, [call |-> "set_input", buffer |-> h.current,
                                          hooked |-> h.hooks # {}])]
      [] step = "switch_to_selected_buffer" ->
           LET target == IF switch_to_buffer
                         THEN switch_to_selected_buffer(state.buffers, h.open)
                         ELSE None
           IN IF target = None THEN h
              ELSE [h EXCEPT !.current = target[1],
                             !.trace = Append(@, [call |-> "switch_to",
                                                  buffer |-> target[1],
                                                  hooked |-> h.hooks # {}])]

\* The host state as RunningState::stop sees it.
HostState ==
    [hooks |-> hooks, input |-> input, current |-> current, open |-> open,
     trace |-> <<>>]

\* RunningState::stop
RunningState_stop(state, switch_to_buffer) ==
    StopStep(StopStep(StopStep(HostState, stop_steps[1], state, switch_to_buffer),
                      stop_steps[2], state, switch_to_buffer),
             stop_steps[3], state, switch_to_buffer)

Running == running_state # None

\* InnerGo::stop, evt being the record of the callback that called it.
InnerGo_stop(switch_to_buffer, evt) ==
    IF Running
    THEN LET h == RunningState_stop(running_state[1], switch_to_buffer)
         IN /\ running_state' = None
            /\ jump_target' = None
            /\ hooks' = h.hooks
            /\ input' = h.input
            /\ current' = h.current
            /\ goEvent' = [evt EXCEPT !.trace = h.trace]
    ELSE /\ goEvent' = evt
         /\ UNCHANGED <<running_state, hooks, input, current, jump_target>>

\* ------------------------------------------------------------------ actions
\* The arguments the /go command can be given.
GoArgs ==
    { <<>>, << <<"a">> >>, << <<"b">> >>, << <<"a">>, <<"b">> >> }

\* The input line every buffer holds when the plugin starts: some text with
\* the cursor in front of it.
InitialInput == [input_string |-> <<"b">>, input_position |-> 0]

GoInit ==
    /\ SectionInit(FALSE, FALSE)
    /\ autojump \in BOOLEAN
    /\ open = BufferIds
    /\ current = 1
    /\ input = [b \in BufferIds |-> InitialInput]
    /\ hooks = {}
    /\ running_state = None
    /\ scheduled = <<>>
    /\ entered_on = 0
    /\ jump_target = <<>>
    /\ goEvent = NoEvent

\* The switch_buffer argument of self.stop in the /go callback.
go_switch_buffer_true == TRUE

go_switch_buffer == FALSE

\* CommandCallback for InnerGo: "/go args" executed on buffer b.
GoCommand ==
    \E b \in open, args \in GoArgs :
       LET arguments == Tail(<< <<"/go">> >> \o args)
           evt == [kind |-> "go", buffer |-> b, args |-> args,
                   was_running |-> Running, trace |-> <<>>]
       IN /\ IF ~Running
             THEN IF arguments # <<>>
                  THEN LET pattern == JoinArgs(arguments)
                           target == switch_to_selected_buffer(
                                        filter(BufferList_new(open), pattern), open)
                       IN /\ current' = IF target = None THEN current ELSE target[1]
                          /\ goEvent' = evt
                          /\ UNCHANGED <<running_state, hooks, input, entered_on,
                                         jump_target>>
                  ELSE /\ running_state' = Some(RunningState_new(input[b], open))
                       /\ hooks' = AllHooks
                       /\ input' = [input EXCEPT ![b] = set_input(@, <<>>)]
                       /\ entered_on' = b
                       /\ jump_target' = None
                       /\ goEvent' = evt
                       /\ UNCHANGED current
             ELSE /\ InnerGo_stop(go_switch_buffer, evt)
                  /\ UNCHANGED entered_on
          /\ UNCHANGED <<autojump, open, scheduled>>
          /\ UNCHANGED secVars

\* The modifier callback rebuilding the list on every call.
modifier_callback_always_rebuild(data, string) ==
    IF data = None \/ data # Some(current) \/ ~Running
    THEN [state |-> running_state, ret |-> None, jump |-> FALSE, ran |-> FALSE]
    ELSE LET st == running_state[1]
             current_input == remove_color(trim_start(string))
             st2 == [st EXCEPT
                       !.last_input = current_input,
                       !.buffers = IF current_input = <<>>
                                   THEN BufferList_new(open)
                                   ELSE filter(BufferList_new(open), current_input)]
         IN IF has_only_one_result(st2.buffers) /\ autojump
            THEN [state |-> Some(st2), ret |-> None, jump |-> TRUE, ran |-> TRUE]
            ELSE [state |-> Some(st2),
                  ret |-> Some([prompt |-> PROMPT, string |-> string,
                                buffers |-> DisplayList(st2.buffers)]),
                  jump |-> FALSE, ran |-> TRUE]

\* ModifierCallback for InnerGo, as a function of the state: the new running
\* state, the text returned and whether "/input return" was scheduled.
modifier_callback(data, string) ==
    IF data = None \/ data # Some(current) \/ ~Running
    THEN [state |-> running_state, ret |-> None, jump |-> FALSE, ran |-> FALSE]
    ELSE LET st == running_state[1]
             current_input == remove_color(trim_start(string))
             st2 == IF st.last_input # current_input
                    THEN [st EXCEPT
                            !.last_input = current_input,
                            !.buffers = IF current_input = <<>>
                                        THEN BufferList_new(open)
                                        ELSE filter(BufferList_new(open), current_input)]
                    ELSE st
         IN IF has_only_one_result(st2.buffers) /\ autojump
            THEN [state |-> Some(st2), ret |-> None, jump |-> TRUE, ran |-> TRUE]
            ELSE [state |-> Some(st2),
                  ret |-> Some([prompt |-> PROMPT, string |-> string,
                                buffers |-> DisplayList(st2.buffers)]),
                  jump |-> FALSE, ran |-> TRUE]

\* The host runs the input-text modifier for a buffer it displays.
ModifierCall ==
    /\ "modifier" \in hooks
    /\ \E data \in {None} \cup {Some(b) : b \in open} :
          LET string == DisplayString(IF data = None THEN input[current]
                                      ELSE input[data[1]])
              r == modifier_callback(data, string)
          IN /\ r.jump => Len(scheduled) < MaxPending
             /\ running_state' = r.state
             /\ scheduled' = IF r.jump THEN Append(scheduled, data[1]) ELSE scheduled
             /\ jump_target' = IF r.jump
                               THEN Some(r.state[1].buffers.buffers[1].number)
                               ELSE jump_target
             /\ goEvent' = [kind |-> "modifier", data |-> data, string |-> string,
                            ret_text |-> r.ret, jump |-> r.jump, ran |-> r.ran]
    /\ UNCHANGED <<autojump, open, current, input, hooks, entered_on>>
    /\ UNCHANGED secVars

\* The /input commands the host can run while the override is hooked.
InputCommands ==
    { <<"/input ", "return">>, <<"/input ", "complete_next">>,
      <<"/input ", "complete_previous">>, <<"/input ", "search_text", "_here">>,
      <<"/input ", "jump", "_smart">>, <<"/input ", "delete_line">> }

starts_with(command, prefix) ==
    /\ Len(command) >= Len(prefix)
    /\ SubSeq(command, 1, Len(prefix)) = prefix

\* The switch_buffer argument of self.stop for "/input return".
return_switch_buffer == TRUE

\* CommandRunCallback for InnerGo on the given command; a command that is
\* not eaten is then run by the host itself.
input_callback(command, timer) ==
    LET evt == [kind |-> "input", command |-> command, timer |-> timer,
                was_running |-> Running, ret_code |-> "OkEat", trace |-> <<>>]
    IN IF \/ starts_with(command, <<"/input ", "search_text">>)
          \/ starts_with(command, <<"/input ", "jump">>)
       THEN /\ goEvent' = evt
            /\ UNCHANGED <<running_state, hooks, input, current, jump_target>>
       ELSE CASE command = <<"/input ", "return">> ->
                   InnerGo_stop(return_switch_buffer, evt)
              [] command = <<"/input ", "complete_next">> ->
                   /\ running_state' =
                        [i \in 1 .. Len(running_state) |->
                           [running_state[i] EXCEPT
                              !.buffers = select_next_buffer(@)]]
                   /\ goEvent' = evt
                   /\ UNCHANGED <<hooks, input, current, jump_target>>
              [] command = <<"/input ", "complete_previous">> ->
                   /\ running_state' =
                        [i \in 1 .. Len(running_state) |->
                           [running_state[i] EXCEPT
                              !.buffers = select_prev_buffer(@)]]
                   /\ goEvent' = evt
                   /\ UNCHANGED <<hooks, input, current, jump_target>>
              [] OTHER ->
                   /\ goEvent' = [evt EXCEPT !.ret_code = "Ok"]
                   /\ input' = [input EXCEPT ![current] = EmptyInput]
                   /\ UNCHANGED <<running_state, hooks, current, jump_target>>

\* The user's key runs an /input command on the current buffer.
InputCommand ==
    /\ "input_command" \in hooks
    /\ \E command \in InputCommands : input_callback(command, FALSE)
    /\ UNCHANGED <<autojump, open, scheduled, entered_on>>
    /\ UNCHANGED secVars

\* The host's timer runs a scheduled "/input return": through the override
\* while it is hooked, otherwise natively (the input line is sent).
RunScheduled ==
    /\ scheduled # <<>>
    /\ scheduled' = Tail(scheduled)
    /\ IF "input_command" \in hooks
       THEN input_callback(<<"/input ", "return">>, TRUE)
       ELSE /\ input' = [input EXCEPT ![Head(scheduled)] = EmptyInput]
            /\ goEvent' = [kind |-> "host", what |-> "input return"]
            /\ UNCHANGED <<running_state, hooks, current, jump_target>>
    /\ UNCHANGED <<autojump, open, entered_on>>
    /\ UNCHANGED secVars

\* "/buffer b": eaten while go-mode has it hooked, a buffer switch otherwise.
BufferCommand ==
    /\ \E b \in open :
          IF "buffer_command" \in hooks
          THEN /\ goEvent' = [kind |-> "eaten", hook |-> "buffer_command",
                              ret_code |-> "OkEat"]
               /\ UNCHANGED current
          ELSE /\ goEvent' = [kind |-> "host", what |-> "buffer"]
               /\ current' = b
    /\ UNCHANGED <<autojump, open, input, hooks, running_state, scheduled,
                   entered_on, jump_target>>
    /\ UNCHANGED secVars

\* "/window ...": eaten while go-mode has it hooked.
WindowCommand ==
    /\ "window_command" \in hooks
    /\ goEvent' = [kind |-> "eaten", hook |-> "window_command",
                   ret_code |-> "OkEat"]
    /\ UNCHANGED <<autojump, open, current, input, hooks, running_state,
                   scheduled, entered_on, jump_target>>
    /\ UNCHANGED secVars

\* The user types a character on the current buffer's input line in go-mode.
UserType ==
    /\ Running
    /\ Len(input[current].input_string) < MaxInput
    /\ \E c \in Chars : input' = [input EXCEPT ![current] = TypeAt(@, c)]
    /\ goEvent' = [kind |-> "host", what |-> "type"]
    /\ UNCHANGED <<autojump, open, current, hooks, running_state, scheduled,
                   entered_on, jump_target>>
    /\ UNCHANGED secVars

\* The host closes a buffer other than the core buffer.
CloseBuffer ==
    /\ \E b \in open \ {1} :
          /\ open' = open \ {b}
          /\ \E c \in open \ {b} : current' = IF current = b THEN c ELSE current
          /\ input' = [input EXCEPT ![b] = EmptyInput]
          /\ scheduled' = SelectSeq(scheduled, LAMBDA x : x # b)
    /\ goEvent' = [kind |-> "host", what |-> "close"]
    /\ UNCHANGED <<autojump, hooks, running_state, entered_on, jump_target>>
    /\ UNCHANGED secVars

GoNext ==
    \/ GoCommand
    \/ ModifierCall
    \/ InputCommand
    \/ RunScheduled
    \/ BufferCommand
    \/ WindowCommand
    \/ UserType
    \/ CloseBuffer

SpecGo == GoInit /\ [][GoNext]_vars

\* The host's timer eventually fires.
FairSpecGo == SpecGo /\ WF_vars(RunScheduled)

\* ----------------------------------------------------------- go claims
\* A step of the callback of the given kind.
GoStep(kind) == goEvent'.kind = kind

\* The buffers whose short name the pattern matches.
Matching(pattern) ==
    {b \in open : fuzzy_match(ShortName(b), pattern) # None}

\* The entry a filtered list selects first: least score, then least number.
BestMatch(pattern) ==
    CHOOSE b \in Matching(pattern) :
       \A c \in Matching(pattern) :
          LET sb == fuzzy_match(ShortName(b), pattern)[1]
              sc == fuzzy_match(ShortName(c), pattern)[1]
          IN sb < sc \/ (sb = sc /\ b <= c)

\* The words of args joined by single spaces.
Joined(args) ==
    IF Len(args) = 1 THEN args[1] ELSE args[1] \o <<" ">> \o args[2]

\* C11: /go while go-mode is not running: with arguments it switches to the
\* selected buffer of the list filtered by the joined arguments if any buffer
\* matches, switches nowhere otherwise, and does not enter go-mode; without
\* arguments it enters go-mode: the running state is present, the four hooks
\* are installed, the buffer's input is saved and then cleared.
C11_GoWhenIdle ==
    [][ (GoStep("go") /\ ~Running) =>
          IF goEvent'.args # <<>>
          THEN /\ running_state' = None
               /\ hooks' = {}
               /\ input' = input
               /\ IF Matching(Joined(goEvent'.args)) # {}
                  THEN current' = BestMatch(Joined(goEvent'.args))
                  ELSE current' = current
          ELSE /\ running_state' # None
               /\ hooks' = AllHooks
               /\ Cardinality(hooks') = 4
               /\ entered_on' = goEvent'.buffer
               /\ running_state'[1].saved_input = input[entered_on']
               /\ input'[entered_on'].input_string = <<>>
               /\ \A b \in BufferIds \ {entered_on'} : input'[b] = input[b]
               /\ current' = current ]_vars

\* C11 witness: "/go a" ran outside go-mode, both buffers matched and the
\* host is on the one the filtered list puts first; go-mode was not entered.
C11_Witness ==
    /\ goEvent.kind = "go"
    /\ ~goEvent.was_running
    /\ goEvent.args = << <<"a">> >>
    /\ {1, 2} \subseteq open
    /\ current = 2
    /\ ~Running
    /\ hooks = {}

\* The running state of go-mode, when there is one.
State == running_state[1]

\* C12: in go-mode "/input complete_next" moves the selection one entry
\* forward and "/input complete_previous" one entry backward, both wrapping
\* around the ends of the list; the command is eaten, and neither the buffers
\* of the list, the stored input, the hooks nor go-mode itself change.
C12_CompletionMovesSelection ==
    [][ (GoStep("input") /\ Running
           /\ goEvent'.command \in {<<"/input ", "complete_next">>,
                                    <<"/input ", "complete_previous">>}) =>
          LET n == Len(State.buffers.buffers)
              i == State.buffers.selected_buffer
          IN /\ running_state' # None
             /\ goEvent'.ret_code = "OkEat"
             /\ running_state'[1].buffers.buffers = State.buffers.buffers
             /\ running_state'[1].last_input = State.last_input
             /\ running_state'[1].saved_input = State.saved_input
             /\ running_state'[1].buffers.selected_buffer =
                   IF n = 0 THEN 0
                   ELSE IF goEvent'.command[2] = "complete_next"
                        THEN (i + 1) % n
                        ELSE (i + n - 1) % n
             /\ UNCHANGED <<hooks, input, current, open>> ]_vars

\* C12 witness: complete_previous was eaten in go-mode on a list of two
\* buffers and left the selection on the last entry (it wrapped from the
\* first, or stepped back onto it).
C12_Witness ==
    /\ goEvent.kind = "input"
    /\ goEvent.command = <<"/input ", "complete_previous">>
    /\ goEvent.was_running
    /\ goEvent.ret_code = "OkEat"
    /\ Running
    /\ Len(State.buffers.buffers) = 2
    /\ State.buffers.selected_buffer = 1

\* The modifier callback ran in go-mode for the current buffer.
ModifierRan == GoStep("modifier") /\ Running /\ goEvent'.data = Some(current)

\* What one call of the modifier callback schedules and returns.
AutojumpStep ==
    GoStep("modifier") =>
       /\ goEvent'.jump <=>
             (ModifierRan /\ autojump
                /\ Len(running_state'[1].buffers.buffers) = 1)
       /\ goEvent'.jump =>
             /\ goEvent'.ret_text = None
             /\ scheduled' = Append(scheduled, current)
       /\ ~goEvent'.jump => scheduled' = scheduled
       /\ (ModifierRan /\ ~autojump) =>
             /\ goEvent'.ret_text # None
             /\ goEvent'.ret_text[1].prompt = PROMPT

\* The step called the host's buffer switch.
Switched == \E k \in 1 .. Len(goEvent'.trace) : goEvent'.trace[k].call = "switch_to"

\* C13 as stated: the modifier callback schedules '/input return' and returns
\* no text exactly on a unique result with autojump on, returns the prompt
\* text and schedules nothing with autojump off, and the go-mode in which a
\* jump was scheduled ends with a switch to the buffer that was the unique
\* result.
C13_AutojumpEndsOnUniqueBuffer ==
    [][ /\ AutojumpStep
        /\ (Running /\ ~Running' /\ jump_target # None) =>
              (Switched /\ current' = jump_target[1]) ]_vars

\* The buffer the selected entry names, if it is still open.
SelectedOpen ==
    LET l == State.buffers
    IN IF l.selected_buffer < Len(l.buffers)
          /\ l.buffers[l.selected_buffer + 1].number \in open
       THEN Some(l.buffers[l.selected_buffer + 1].number)
       ELSE None

\* C13 amended: scheduling and the returned text are as stated; when the
\* scheduled '/input return' runs in go-mode it ends go-mode and switches to
\* the buffer selected at that moment if it is still open; a pending jump
\* in go-mode is only withdrawn by closing its buffer, and otherwise go-mode
\* ends, by the scheduled command or before it by /go or by a key.
C13_AutojumpAmended ==
    /\ [][ /\ AutojumpStep
           /\ (GoStep("input") /\ goEvent'.timer /\ Running) =>
                 /\ ~Running'
                 /\ IF SelectedOpen # None
                    THEN Switched /\ current' = SelectedOpen[1]
                    ELSE ~Switched /\ current' = current
           /\ (Running /\ Running' /\ Len(scheduled') < Len(scheduled)) =>
                 open' # open ]_vars
    /\ (Running /\ scheduled # <<>>) ~> (~Running \/ scheduled = <<>>)

\* C13 witness: with autojump on, the scheduled '/input return' ran in
\* go-mode, switched buffers and ended go-mode.
C13_Witness ==
    /\ autojump
    /\ goEvent.kind = "input"
    /\ goEvent.timer
    /\ goEvent.was_running
    /\ \E k \in 1 .. Len(goEvent.trace) :
          goEvent.trace[k].call = "switch_to" /\ goEvent.trace[k].buffer = current
    /\ ~Running

\* The host calls the last callback made through RunningState::stop.
StopTrace == IF goEvent.kind \in {"go", "input"} THEN goEvent.trace ELSE <<>>

\* C14: RunningState::stop releases the four go-mode hooks first: the input
\* restoration on the current buffer and the buffer switch both happen with
\* no go-mode hook installed, so neither can invoke the plugin's modifier or
\* command-run callbacks.
C14_HooksReleasedFirst ==
    StopTrace # <<>> =>
       /\ StopTrace[1].call = "unhook"
       /\ StopTrace[1].hooked
       /\ Len(StopTrace) >= 2
       /\ StopTrace[2].call = "set_input"
       /\ \A k \in 2 .. Len(StopTrace) :
             /\ StopTrace[k].call \in {"set_input", "switch_to"}
             /\ ~StopTrace[k].hooked
       /\ hooks = {}

\* C14 witness: a stop that released the hooks, restored the input and
\* switched buffers, in that order.
C14_Witness ==
    /\ Len(StopTrace) = 3
    /\ StopTrace[1].call = "unhook"
    /\ StopTrace[2].call = "set_input"
    /\ StopTrace[3].call = "switch_to"
    /\ hooks = {}

\* C15: /go while go-mode is running ends go-mode without switching buffers,
\* whatever its arguments: the running state becomes empty, the hooks are
\* released, the saved input is restored on the current buffer, and the
\* current buffer stays what it was.
C15_GoWhenRunningStops ==
    [][ (GoStep("go") /\ Running) =>
          /\ running_state' = None
          /\ hooks' = {}
          /\ ~Switched
          /\ current' = current
          /\ input'[current].input_string = State.saved_input.input_string
          /\ input'[current].input_position = State.saved_input.input_position
          /\ \A b \in BufferIds \ {current} : input'[b] = input[b]
          /\ open' = open ]_vars

\* C15 witness: "/go a b" was given in go-mode on a host showing buffer 1
\* while buffer 2 matches the pattern; go-mode is over and buffer 1 is still
\* the current one.
C15_Witness ==
    /\ goEvent.kind = "go"
    /\ goEvent.was_running
    /\ goEvent.args = << <<"a">>, <<"b">> >>
    /\ 2 \in open
    /\ current = 1
    /\ ~Running
    /\ hooks = {}

\* The open buffers whose full name is the selected entry's full name.
NamedBySelection ==
    LET l == State.buffers
    IN IF l.selected_buffer < Len(l.buffers)
       THEN {b \in open : FullName(b) = l.buffers[l.selected_buffer + 1].full_name}
       ELSE {}

\* C16: '/input return' in go-mode ends go-mode (state empty, hooks released)
\* and is eaten; the host is switched to the buffer whose full name equals
\* the full name of the entry selected at that moment, and when the list is
\* empty or no such buffer exists any more, no switch happens.
C16_ReturnSwitchesToSelection ==
    [][ (GoStep("input") /\ Running
           /\ goEvent'.command = <<"/input ", "return">>) =>
          /\ running_state' = None
          /\ hooks' = {}
          /\ goEvent'.ret_code = "OkEat"
          /\ IF NamedBySelection # {}
             THEN Switched /\ current' \in NamedBySelection
             ELSE ~Switched /\ current' = current ]_vars

\* C16 witness: a return key (not the timer) ended go-mode and the host was
\* switched to buffer 2, the buffer the selected entry named.
C16_Witness ==
    /\ goEvent.kind = "input"
    /\ goEvent.command = <<"/input ", "return">>
    /\ ~goEvent.timer
    /\ goEvent.was_running
    /\ Len(goEvent.trace) = 3
    /\ goEvent.trace[3].call = "switch_to"
    /\ goEvent.trace[3].buffer = 2
    /\ current = 2
    /\ ~Running

\* C17: whenever go-mode ends, the buffer go-mode was entered on (if it is
\* still open) has again the input string and the cursor position it had
\* when go-mode was entered.
C17_InputRestoredOnEnteredBuffer ==
    [][ (Running /\ ~Running' /\ entered_on \in open') =>
          /\ input'[entered_on].input_string = State.saved_input.input_string
          /\ input'[entered_on].input_position = State.saved_input.input_position
      ]_vars

\* The input the modifier callback compares: the displayed string without
\* leading blanks and colour codes.
Cleaned == remove_color(trim_start(goEvent'.string))

\* l lists exactly the buffers of the set bs, with the given scores, ordered
\* by score and then by number.
ListsExactly(l, bs, score(_)) ==
    /\ {l[k].number : k \in 1 .. Len(l)} = bs
    /\ Len(l) = Cardinality(bs)
    /\ \A k \in 1 .. Len(l) :
          /\ l[k].score = score(l[k].number)
          /\ l[k].short_name = ShortName(l[k].number)
          /\ l[k].full_name = FullName(l[k].number)
    /\ \A k \in 1 .. Len(l) - 1 :
          \/ l[k].score < l[k + 1].score
          \/ l[k].score = l[k + 1].score /\ l[k].number < l[k + 1].number

\* C18: a run of the modifier callback in go-mode rebuilds the buffer list
\* and puts the selection back on the first entry exactly when the cleaned
\* input differs from the stored last input: the new list holds every open
\* buffer when the cleaned input is empty and the buffers the input matches
\* otherwise, and the cleaned input is stored; when the input is the stored
\* one, the list, the selection and the stored input are left as they were.
C18_RebuildOnlyOnChangedInput ==
    [][ ModifierRan =>
          IF Cleaned # State.last_input
          THEN /\ running_state' # None
               /\ running_state'[1].last_input = Cleaned
               /\ running_state'[1].saved_input = State.saved_input
               /\ running_state'[1].buffers.selected_buffer = 0
               /\ IF Cleaned = <<>>
                  THEN ListsExactly(running_state'[1].buffers.buffers, open,
                                    LAMBDA b : 0)
                  ELSE ListsExactly(running_state'[1].buffers.buffers,
                                    Matching(Cleaned),
                                    LAMBDA b : fuzzy_match(ShortName(b), Cleaned)[1])
          ELSE running_state' = running_state ]_vars

\* C18 witness: the modifier callback ran in go-mode on an input it had
\* already stored and left the selection on the second entry, where
\* complete_next or complete_previous had put it.
C18_Witness ==
    /\ goEvent.kind = "modifier"
    /\ goEvent.ran
    /\ Running
    /\ State.last_input = remove_color(trim_start(goEvent.string))
    /\ Len(State.buffers.buffers) = 2
    /\ State.buffers.selected_buffer = 1

====
